---- MODULE Spec2Model ----
(***************************************************************************)
(* A model of the gomemcached client (src/memcached.go, first listing, and *)
(* the server selector found in src/memcached_test.go): the server         *)
(* selector, the per-address free list of connections and the text codec   *)
(* of add/set/replace/get/delete/incr/decr/flush_all, together with a      *)
(* memcached server speaking the wire protocol on the other end of every   *)
(* connection.  Bytes are integers 0..255, byte strings are sequences.     *)
(***************************************************************************)
EXTENDS Integers, Sequences, FiniteSets, TLC

\* ------------------------------------------------------------------ bounds

\* Spec: callers (goroutines) using the one client, public calls made in one
\* behaviour over all callers, and connections dialed in one behaviour (a dial
\* beyond it fails).
NumProcs == 2
MaxCalls == 2
MaxConns == 2
\* SpecSeq: the calls of its single caller.
SeqCalls == 3
\* SpecPool: its callers, their calls and the connections dialed.
PoolProcs == 6
PoolCalls == 6
PoolConns == 6
\* SpecRelease: the most connections in the free list of the other address,
\* and the calls made after the release.
RelOther == 2
RelCalls == 1
\* SpecLock: its callers and their calls.
LockProcs == 2
LockCalls == 2
\* SpecTime: its callers, their calls, and the seconds that pass.
TimeProcs == 2
TimeCalls == 3
MaxTime == 2
\* SpecSel: its callers and their calls.
SelProcs == 2
SelCalls == 3

Procs == 1..NumProcs
Conns == 1..MaxConns

\* ------------------------------------------------------------- byte strings

CTRL == <<13, 10>>
SPACE == <<32>>
RESULT_NOT_STORED == <<78, 79, 84, 95, 83, 84, 79, 82, 69, 68, 13, 10>>
RESULT_STORED == <<83, 84, 79, 82, 69, 68, 13, 10>>
RESULT_NOT_FOUND == <<78, 79, 84, 95, 70, 79, 85, 78, 68, 13, 10>>
RESULT_END == <<69, 78, 68, 13, 10>>
RESULT_DELETE_OK == <<68, 69, 76, 69, 84, 69, 68, 13, 10>>

\* The command words the client writes.
CmdAdd == <<97, 100, 100>>
CmdSet == <<115, 101, 116>>
CmdReplace == <<114, 101, 112, 108, 97, 99, 101>>
CmdGet == <<103, 101, 116>>
CmdDelete == <<100, 101, 108, 101, 116, 101>>
CmdIncr == <<105, 110, 99, 114>>
CmdDecr == <<100, 101, 99, 114>>
CmdFlushAll == <<102, 108, 117, 115, 104, 95, 97, 108, 108>>
\* "VALUE", the literal the get parser scans for.
WordVALUE == <<86, 65, 76, 85, 69>>
\* "error bad result ....", the text of the framing error of parseGetResponse.
BadResultText == <<101, 114, 114, 111, 114, 32, 98, 97, 100, 32, 114, 101, 115, 117, 108, 116, 32, 46, 46, 46, 46>>

IsDigit(b) == b >= 48 /\ b <= 57

\* The index of the first byte b in s at or after position i, 0 when there is none.
RECURSIVE IndexFrom(_, _, _)
IndexFrom(s, b, i) ==
    IF i > Len(s) THEN 0 ELSE IF s[i] = b THEN i ELSE IndexFrom(s, b, i + 1)
IndexOf(s, b) == IndexFrom(s, b, 1)

Drop(s, n) == SubSeq(s, n + 1, Len(s))
Take(s, n) == SubSeq(s, 1, n)

HasPrefix(s, pre) == Len(s) >= Len(pre) /\ Take(s, Len(pre)) = pre
HasSuffix(s, suf) == Len(s) >= Len(suf) /\ Drop(s, Len(s) - Len(suf)) = suf

\* %d of a non-negative number: its decimal digits.
RECURSIVE Itoa(_)
Itoa(n) == IF n < 10 THEN <<48 + n>> ELSE Itoa(n \div 10) \o <<48 + (n % 10)>>

\* The number a non-empty run of decimal digits denotes.
RECURSIVE Atoi(_)
Atoi(ds) == IF ds = <<>> THEN 0 ELSE 10 * Atoi(Take(ds, Len(ds) - 1)) + (ds[Len(ds)] - 48)

\* fmt's isSpace on the bytes of the ASCII range, the newline apart.
IsBlank(b) == b \in {9, 11, 12, 13, 32}

\* The length of the longest prefix of s made of digits (digits = TRUE) or of
\* bytes that are neither blank nor a newline (digits = FALSE).
RECURSIVE RunLen(_, _)
RunLen(s, digits) ==
    IF s = <<>> THEN 0
    ELSE IF (digits /\ IsDigit(s[1])) \/ (~digits /\ ~IsBlank(s[1]) /\ s[1] # 10)
         THEN 1 + RunLen(Tail(s), digits)
         ELSE 0

RECURSIVE SkipBlanks(_)
SkipBlanks(s) == IF s # <<>> /\ IsBlank(s[1]) THEN SkipBlanks(Tail(s)) ELSE s

\* ------------------------------------------------------------------ errors

\* An error value: a sentinel (identified by its kind), an error made by
\* fmt.Errorf (kind "errorf", with its text), or an error of the transport
\* (kind "timeout": the deadline passed in a read; kind "dial").
Err(kind) == [kind |-> kind, text |-> <<>>]
Nil == Err("nil")
ErrCacheMiss == Err("ErrCacheMiss")
ErrCASConflict == Err("ErrCASConflict")
ErrNotStored == Err("ErrNotStored")
ErrMalformedKey == Err("ErrMalformedKey")
ErrNoServer == Err("ErrNoServer")
ErrTimeout == Err("timeout")
ErrDial == Err("dial")
\* An error of fmt.Sscanf; the text is not modelled.
ErrScan == Err("scan")
Errorf(text) == [kind |-> "errorf", text |-> text]

\* resumeableError(err): the errors after which a connection is kept.
resumeableError(err) ==
    \/ err = Nil
    \/ err \in {ErrCacheMiss, ErrNotStored, ErrCASConflict, ErrMalformedKey}

\* ------------------------------------------------------------ server selector

checkKey(key) ==
    IF Len(key) > 250 THEN ErrMalformedKey
    ELSE IF \E i \in 1..Len(key) : key[i] <= 32 \/ key[i] >= 127 THEN ErrMalformedKey
    ELSE Nil

\* A 32-bit word as <<high 16 bits, low 16 bits>>.
RECURSIVE XorBits(_, _, _)
XorBits(a, b, n) ==
    IF n = 0 THEN 0
    ELSE (((a % 2) + (b % 2)) % 2) + 2 * XorBits(a \div 2, b \div 2, n - 1)
Xor(x, y) == <<XorBits(x[1], y[1], 16), XorBits(x[2], y[2], 16)>>
Shr1(x) == <<x[1] \div 2, (x[2] \div 2) + (x[1] % 2) * 32768>>
AllOnes == <<65535, 65535>>
\* The reflected IEEE polynomial 0xEDB88320.
PolyIEEE == <<60856, 33568>>
RECURSIVE CrcShift(_, _)
CrcShift(x, n) ==
    IF n = 0 THEN x
    ELSE CrcShift(IF x[2] % 2 = 1 THEN Xor(Shr1(x), PolyIEEE) ELSE Shr1(x), n - 1)
\* The register after the bytes s[lo..hi], split in halves to keep the
\* evaluation shallow.
RECURSIVE CrcRange(_, _, _, _)
CrcRange(crc, s, lo, hi) ==
    IF lo > hi THEN crc
    ELSE IF lo = hi THEN CrcShift(Xor(crc, <<0, s[lo]>>), 8)
    ELSE LET mid == (lo + hi) \div 2
             left == CrcRange(crc, s, lo, mid)
         IN  IF left[1] >= 0 THEN CrcRange(left, s, mid + 1, hi) ELSE left
CrcBytes(crc, s) == CrcRange(crc, s, 1, Len(s))
\* crc32.ChecksumIEEE, as a word.
ChecksumIEEE(s) == Xor(CrcBytes(AllOnes, s), AllOnes)
\* cs % uint32(n) of a word cs.
WordMod(x, n) == ((x[1] % n) * (65536 % n) + x[2]) % n

\* "dog", a valid key.
KeyDog == <<100, 111, 103>>
\* "a b": a space inside.
KeySpace == <<97, 32, 98>>
\* "k" and the byte 0x7F.
KeyDel == <<107, 127>>
\* 251 bytes.
KeyLong == [i \in 1..251 |-> 97]
\* The keys callers use.
Keys == {KeyDog, KeySpace}
\* Every key of the model.
AllKeys == {KeyDog, KeySpace, KeyDel, KeyLong, <<>>}

\* crc32.ChecksumIEEE([]byte(key)) of the keys of the model, computed once.
KeyChecksum == [k \in AllKeys |-> ChecksumIEEE(k)]

\* PickServer as it would be with the first address always chosen.
PickServerFirst(as, key) ==
    IF Len(as) = 0 THEN [err |-> ErrNoServer, addr |-> "none"]
    ELSE [err |-> Nil, addr |-> as[1]]

\* PickServer on the address list as: the error, and the address when nil.
PickServer(as, key) ==
    IF Len(as) = 0 THEN [err |-> ErrNoServer, addr |-> "none"]
    ELSE IF Len(as) = 1 THEN [err |-> Nil, addr |-> as[1]]
    ELSE [err |-> Nil, addr |-> as[WordMod(KeyChecksum[key], Len(as)) + 1]]

\* --------------------------------------------------------------- fmt.Sscanf

\* The %d verb into a uint32: blanks are skipped, a newline or the end of the
\* input is an error, then a non-empty run of digits is the number.  Tokens of
\* ten digits or more are beyond the numbers of this model; they scan as the
\* overflow error, which is what they are from 4294967296 up.
ScanUint(s) ==
    LET s1 == SkipBlanks(s)
        n == RunLen(s1, TRUE)
    IN  IF n = 0 \/ n > 9
        THEN [ok |-> FALSE, val |-> 0, rest |-> s1]
        ELSE [ok |-> TRUE, val |-> Atoi(Take(s1, n)), rest |-> Drop(s1, n)]

\* "\r\n" closing a format: blanks (CR is one), then a newline or the end.
ScanNewline(s) == LET s1 == SkipBlanks(s) IN s1 = <<>> \/ s1[1] = 10

\* A lone space of the format: one blank at least, or the end of the input.
ScanSpace(s) == s = <<>> \/ IsBlank(s[1])

\* Sscanf(line, "VALUE %s %d %d\r\n", &key, &flags, &size): what the three
\* variables hold afterwards (the error is dropped by the caller). A variable
\* the scan did not reach keeps its value: key0, 0, 0.
ScanValueHeader(line, key0) ==
    LET none == [key |-> key0, flags |-> 0, size |-> 0]
        r1 == Drop(line, Len(WordVALUE))
        r2 == SkipBlanks(r1)
        n == RunLen(r2, FALSE)
        r3 == Drop(r2, n)
        f == ScanUint(r3)
        z == ScanUint(f.rest)
    IN  IF ~HasPrefix(line, WordVALUE) \/ ~ScanSpace(r1) \/ n = 0 THEN none
        ELSE IF ~ScanSpace(r3) \/ ~f.ok THEN [none EXCEPT !.key = Take(r2, n)]
        ELSE IF ~ScanSpace(f.rest) \/ ~z.ok
             THEN [key |-> Take(r2, n), flags |-> f.val, size |-> 0]
             ELSE [key |-> Take(r2, n), flags |-> f.val, size |-> z.val]

\* The scan of responseIncrAndDecr with its error dropped, as parseGetResponse
\* drops the error of its own scan.
ScanCounterIgnoringError(line) ==
    LET u == ScanUint(line) IN [err |-> Nil, res |-> u.val]

\* Sscanf(line, "%d\r\n", &res) and the two returns after it.
ScanCounter(line) ==
    LET u == ScanUint(line)
    IN  IF u.ok /\ ScanNewline(u.rest)
        THEN [err |-> Nil, res |-> u.val]
        ELSE [err |-> ErrScan, res |-> 0]

\* ---------------------------------------------------------- memcached server

\* The lines of the server that the client has no constant for.
ReplyError == <<69, 82, 82, 79, 82, 13, 10>>
ReplyOK == <<79, 75, 13, 10>>
\* "CLIENT_ERROR bad command line format"
ReplyBadFormat == <<67, 76, 73, 69, 78, 84, 95, 69, 82, 82, 79, 82, 32, 98, 97, 100, 32, 99, 111, 109, 109, 97, 110, 100, 32, 108, 105, 110, 101, 32, 102, 111, 114, 109, 97, 116, 13, 10>>
\* "CLIENT_ERROR bad data chunk"
ReplyBadChunk == <<67, 76, 73, 69, 78, 84, 95, 69, 82, 82, 79, 82, 32, 98, 97, 100, 32, 100, 97, 116, 97, 32, 99, 104, 117, 110, 107, 13, 10>>
\* "CLIENT_ERROR invalid numeric delta argument"
ReplyBadDelta == <<67, 76, 73, 69, 78, 84, 95, 69, 82, 82, 79, 82, 32, 105, 110, 118, 97, 108, 105, 100, 32, 110, 117, 109, 101, 114, 105, 99, 32, 100, 101, 108, 116, 97, 32, 97, 114, 103, 117, 109, 101, 110, 116, 13, 10>>
\* "CLIENT_ERROR cannot increment or decrement non-numeric value"
ReplyNonNumeric == <<67, 76, 73, 69, 78, 84, 95, 69, 82, 82, 79, 82, 32, 99, 97, 110, 110, 111, 116, 32, 105, 110, 99, 114, 101, 109, 101, 110, 116, 32, 111, 114, 32, 100, 101, 99, 114, 101, 109, 101, 110, 116, 32, 110, 111, 110, 45, 110, 117, 109, 101, 114, 105, 99, 32, 118, 97, 108, 117, 101, 13, 10>>

\* The words of a command line: the server splits at single spaces.
RECURSIVE WordLen(_)
WordLen(s) == IF s = <<>> \/ s[1] = 32 THEN 0 ELSE 1 + WordLen(Tail(s))
RECURSIVE Tokens(_)
Tokens(s) ==
    IF s = <<>> THEN <<>>
    ELSE IF s[1] = 32 THEN Tokens(Tail(s))
    ELSE <<Take(s, WordLen(s))>> \o Tokens(Drop(s, WordLen(s)))

IsNumber(tok) == tok # <<>> /\ Len(tok) <= 9 /\ \A i \in 1..Len(tok) : IsDigit(tok[i])

\* One item as the server sends it.
ValueBlock(key, it) ==
    WordVALUE \o SPACE \o key \o SPACE \o Itoa(it.flags) \o SPACE \o Itoa(Len(it.data))
        \o CTRL \o it.data \o CTRL

RECURSIVE ValueBlocks(_, _)
ValueBlocks(items, keys) ==
    IF keys = <<>> THEN <<>>
    ELSE (IF keys[1] \in DOMAIN items THEN ValueBlock(keys[1], items[keys[1]]) ELSE <<>>)
         \o ValueBlocks(items, Tail(keys))

PutItem(items, key, it) ==
    [k \in (DOMAIN items) \cup {key} |-> IF k = key THEN it ELSE items[k]]
DropItem(items, key) == [k \in (DOMAIN items) \ {key} |-> items[k]]
NoItems == [k \in {} |-> 0]

\* The server on one connection: the first request of the bytes buf against
\* the items of the server.  ready is FALSE while the request is incomplete
\* (no newline yet, or a data block still short); otherwise the items after
\* the request, the reply sent, and the bytes left for the next request.
ServerApply(items, buf) ==
    LET i == IndexOf(buf, 10)
        raw == Take(buf, i - 1)
        cmdline == IF HasSuffix(raw, <<13>>) THEN Take(raw, Len(raw) - 1) ELSE raw
        toks == Tokens(cmdline)
        n == Len(toks)
        rest == Drop(buf, i)
        cmd == IF n = 0 THEN <<>> ELSE toks[1]
        key == IF n < 2 THEN <<>> ELSE toks[2]
        done(its, reply, left) ==
            [ready |-> TRUE, items |-> its, reply |-> reply, rest |-> left]
        wait == [ready |-> FALSE, items |-> items, reply |-> <<>>, rest |-> buf]
    IN  IF i = 0 THEN wait
        ELSE IF cmd = CmdGet /\ n >= 2 THEN
            IF \E j \in 2..n : Len(toks[j]) > 250
            THEN done(items, ReplyBadFormat, rest)
            ELSE done(items, ValueBlocks(items, Tail(toks)) \o RESULT_END, rest)
        ELSE IF cmd \in {CmdAdd, CmdSet, CmdReplace} /\ n \in {5, 6} THEN
            IF Len(key) > 250 \/ ~IsNumber(toks[3]) \/ ~IsNumber(toks[4])
                   \/ ~IsNumber(toks[5])
            THEN done(items, ReplyBadFormat, rest)
            ELSE LET len == Atoi(toks[5])
                     it == [flags |-> Atoi(toks[3]), data |-> Take(rest, len)]
                     left == Drop(rest, len + 2)
                 IN  IF Len(rest) < len + 2 THEN wait
                     ELSE IF SubSeq(rest, len + 1, len + 2) # CTRL
                          THEN done(items, ReplyBadChunk, left)
                     ELSE IF cmd = CmdAdd /\ key \in DOMAIN items
                          THEN done(items, RESULT_NOT_STORED, left)
                     ELSE IF cmd = CmdReplace /\ key \notin DOMAIN items
                          THEN done(items, RESULT_NOT_STORED, left)
                     ELSE done(PutItem(items, key, it), RESULT_STORED, left)
        ELSE IF cmd \in {CmdIncr, CmdDecr} /\ n \in {3, 4} THEN
            IF Len(key) > 250 THEN done(items, ReplyBadFormat, rest)
            ELSE IF ~IsNumber(toks[3]) THEN done(items, ReplyBadDelta, rest)
            ELSE IF key \notin DOMAIN items THEN done(items, RESULT_NOT_FOUND, rest)
            ELSE IF ~IsNumber(items[key].data) THEN done(items, ReplyNonNumeric, rest)
            ELSE LET old == Atoi(items[key].data)
                     d == Atoi(toks[3])
                     new == IF cmd = CmdIncr THEN old + d
                            ELSE IF d > old THEN 0 ELSE old - d
                 IN  done(PutItem(items, key, [items[key] EXCEPT !.data = Itoa(new)]),
                          Itoa(new) \o CTRL, rest)
        ELSE IF cmd = CmdDelete /\ n \in {2, 3} THEN
            IF Len(key) > 250 \/ (n = 3 /\ toks[3] # <<48>>)
            THEN done(items, ReplyBadFormat, rest)
            ELSE IF key \in DOMAIN items
                 THEN done(DropItem(items, key), RESULT_DELETE_OK, rest)
                 ELSE done(items, RESULT_NOT_FOUND, rest)
        ELSE IF cmd = CmdDelete /\ n = 4 THEN done(items, ReplyBadFormat, rest)
        ELSE IF cmd = CmdFlushAll /\ n = 1 THEN done(NoItems, ReplyOK, rest)
        ELSE done(items, ReplyError, rest)

\* ---------------------------------------------------------------- the inputs

\* The addresses a server list can name.
Addrs == {"a1", "a2", "a3"}
\* The server lists New is called with.
ServerLists == {<<>>, <<"a1">>, <<"a1", "a2">>}

\* The keys the key check lets through to the server.
GoodKeys == {k \in Keys : checkKey(k) = Nil}

\* What a store call carries besides its key: Item.Value, Item.Flags and
\* Item.Exporation.  "2", and the three bytes of one Chinese character.
StoreArgs ==
    { [value |-> <<50>>, flags |-> 0, exp |-> 60],
      [value |-> <<229, 138, 168>>, flags |-> 5, exp |-> 0] }
NoArg == [value |-> <<>>, flags |-> 0, exp |-> 0]
\* The item SpecSel adds.
SelArg == [value |-> <<50>>, flags |-> 0, exp |-> 60]
\* The steps of Incr and Decr.
Deltas == {100}

\* ------------------------------------------------------------------ the state

VARIABLES
    addrs,      \* GoServer.addrs: the configured addresses, in order
    connPool,   \* GoClient.connPool: address -> free list, the last freed last
    connAddr,   \* GoConn.addr of every connection dialed, "none" before
    connState,  \* "unused", "open", or "closed" once the client has closed it
    toServer,   \* per connection: bytes flushed by the client, not yet taken by the server
    toClient,   \* per connection: bytes sent by the server, not yet read by the client
    items,      \* per address: the items the server holds
    pc,         \* per caller: where it is in its call
    call,       \* per caller: the locals of the call in progress
    last,       \* the latest return of a public call
    callsLeft,  \* public calls the callers may still make
    fatal,      \* history: connections whose operation ended in a fatal-class error
    stored,     \* history: per key, value and flags of the last store that returned nil
    picked,     \* history: the keys and results of PickServer since addrs was last set
    now,        \* the time, in seconds
    deadline,   \* per connection: the deadline last set on it, 0 before
    lk          \* gc.lk: the caller that holds the mutex, 0 when it is free

vars == <<addrs, connPool, connAddr, connState, toServer, toClient, items,
          pc, call, last, callsLeft, fatal, stored, picked, now, deadline, lk>>

DEFAULT_FREE_GO_CONN_NUM == 5
\* time.Second * 5, in seconds.
DEFAULT_CLIENT_TIMEOUT == 5

NoItem == [key |-> <<>>, value |-> <<>>, flags |-> 0]
NoExpect == [known |-> FALSE, value |-> <<>>, flags |-> 0]
NoCall ==
    [op |-> "none", key |-> <<>>, arg |-> NoArg, conn |-> 0, deferErr |-> Nil,
     skey |-> <<>>, flags |-> 0, size |-> 0, value |-> <<>>, line |-> <<>>,
     todo |-> <<>>, naddr |-> <<>>, addr |-> "none",
     ferr |-> Nil, expect |-> NoExpect]
\* A return: the call (op, key, arg), whether it panicked instead of
\* returning, the error, item and number returned, the connection the call
\* held (0: none) and the deadline it had then, the first line it read, and,
\* for Get, what the last store of the key had returned when the Get began.
NoRet ==
    [op |-> "none", key |-> <<>>, arg |-> NoArg, panic |-> FALSE, err |-> Nil,
     item |-> NoItem, num |-> 0, conn |-> 0, line |-> <<>>, expect |-> NoExpect,
     servers |-> <<>>, addr |-> "none", deadline |-> 0]

InitWith(procs, conns, budget, lists) ==
    /\ addrs \in lists
    /\ connPool = [a \in Addrs |-> <<>>]
    /\ connAddr = [c \in conns |-> "none"]
    /\ connState = [c \in conns |-> "unused"]
    /\ toServer = [c \in conns |-> <<>>]
    /\ toClient = [c \in conns |-> <<>>]
    /\ items = [a \in Addrs |-> NoItems]
    /\ pc = [p \in procs |-> "idle"]
    /\ call = [p \in procs |-> NoCall]
    /\ last = NoRet
    /\ callsLeft = budget
    /\ fatal = {}
    /\ stored = [k \in GoodKeys |-> NoExpect]
    /\ picked = {}
    /\ now = 0
    /\ deadline = [c \in conns |-> 0]
    /\ lk = 0

Init == InitWith(Procs, Conns, MaxCalls, ServerLists)

\* ------------------------------------------------------------ connection pool

\* putFreeGoConnToPool as it would be without its capacity test.
putFreeGoConnToPoolUnbounded(pool, state, c) ==
    [pool |-> [pool EXCEPT ![connAddr[c]] = Append(@, c)], state |-> state]

\* putFreeGoConnToPool as it would be making room in a full list by closing
\* its oldest connection.
putFreeGoConnToPoolEvicting(pool, state, c) ==
    LET list == pool[connAddr[c]]
    IN  IF Len(list) >= DEFAULT_FREE_GO_CONN_NUM
        THEN [pool |-> [pool EXCEPT ![connAddr[c]] = Append(Tail(list), c)],
              state |-> [state EXCEPT ![Head(list)] = "closed"]]
        ELSE [pool |-> [pool EXCEPT ![connAddr[c]] = Append(list, c)], state |-> state]

\* putFreeGoConnToPool: the free lists and the connection states after it.
putFreeGoConnToPool(pool, state, c) ==
    IF Len(pool[connAddr[c]]) >= DEFAULT_FREE_GO_CONN_NUM
    THEN [pool |-> pool, state |-> [state EXCEPT ![c] = "closed"]]
    ELSE [pool |-> [pool EXCEPT ![connAddr[c]] = Append(@, c)], state |-> state]

\* condRelease as it would be closing the connection in both its branches.
condReleaseClosing(pool, state, c, err) ==
    LET put == putFreeGoConnToPool(pool, state, c)
    IN  IF resumeableError(err)
        THEN [pool |-> put.pool, state |-> [put.state EXCEPT ![c] = "closed"]]
        ELSE [pool |-> pool, state |-> [state EXCEPT ![c] = "closed"]]

\* condRelease(err).
condRelease(pool, state, c, err) ==
    IF resumeableError(err)
    THEN putFreeGoConnToPool(pool, state, c)
    ELSE [pool |-> pool, state |-> [state EXCEPT ![c] = "closed"]]

\* getGoConn as it would be with a limit on the connections of an address
\* that are checked out: with DEFAULT_FREE_GO_CONN_NUM of them out and no free
\* one, it has no way to end until one is given back.
getGoConnBounded(a) ==
    IF connPool[a] # <<>>
    THEN { [err |-> Nil, conn |-> connPool[a][Len(connPool[a])], reused |-> TRUE] }
    ELSE IF Cardinality({d \in DOMAIN connState :
                           connState[d] = "open" /\ connAddr[d] = a})
              >= DEFAULT_FREE_GO_CONN_NUM
    THEN {}
    ELSE { [err |-> Nil, conn |-> c, reused |-> FALSE] :
             c \in {d \in DOMAIN connState :
                      /\ connState[d] = "unused"
                      /\ \A e \in DOMAIN connState : connState[e] = "unused" => d <= e} }
         \cup { [err |-> ErrDial, conn |-> 0, reused |-> FALSE] }

\* getGoConn(a): the ways it can end.  A free connection of a is taken from
\* the end of its list; with none, a dial makes the next connection or fails.
getGoConn(a) ==
    IF connPool[a] # <<>>
    THEN { [err |-> Nil, conn |-> connPool[a][Len(connPool[a])], reused |-> TRUE] }
    ELSE { [err |-> Nil, conn |-> c, reused |-> FALSE] :
             c \in {d \in DOMAIN connState :
                      /\ connState[d] = "unused"
                      /\ \A e \in DOMAIN connState : connState[e] = "unused" => d <= e} }
         \cup { [err |-> ErrDial, conn |-> 0, reused |-> FALSE] }

\* extendDeadline: time.Now().Add(gcn.goClient.timeout).
extendDeadline == now + DEFAULT_CLIENT_TIMEOUT

\* getGoConn as it would be with extendDeadline called on the connections it
\* dials only.
AcquireArmingOnDial(a, o, out) ==
    /\ connPool' = IF o.reused THEN [connPool EXCEPT ![a] = Take(@, Len(@) - 1)]
                   ELSE connPool
    /\ connAddr' = IF o.reused THEN connAddr ELSE [connAddr EXCEPT ![o.conn] = a]
    /\ connState' = IF o.reused THEN connState ELSE [connState EXCEPT ![o.conn] = "open"]
    /\ toServer' = [toServer EXCEPT ![o.conn] = @ \o out]
    /\ deadline' = IF o.reused THEN deadline
                   ELSE [deadline EXCEPT ![o.conn] = extendDeadline]

\* getGoConn as it would be with getFreeGoConnFromPool leaving the connection
\* it returns in the free list.
AcquireKeepingFree(a, o, out) ==
    /\ connPool' = connPool
    /\ connAddr' = IF o.reused THEN connAddr ELSE [connAddr EXCEPT ![o.conn] = a]
    /\ connState' = IF o.reused THEN connState ELSE [connState EXCEPT ![o.conn] = "open"]
    /\ toServer' = [toServer EXCEPT ![o.conn] = @ \o out]
    /\ deadline' = [deadline EXCEPT ![o.conn] = extendDeadline]

\* The pool and the connections after getGoConn(a) ended well as o, and the
\* bytes out written and flushed on the connection.
Acquire(a, o, out) ==
    /\ connPool' = IF o.reused THEN [connPool EXCEPT ![a] = Take(@, Len(@) - 1)]
                   ELSE connPool
    /\ connAddr' = IF o.reused THEN connAddr ELSE [connAddr EXCEPT ![o.conn] = a]
    /\ connState' = IF o.reused THEN connState ELSE [connState EXCEPT ![o.conn] = "open"]
    /\ toServer' = [toServer EXCEPT ![o.conn] = @ \o out]
    /\ deadline' = [deadline EXCEPT ![o.conn] = extendDeadline]

\* The class of errors after which a connection must not be used again.
FatalClass(err) ==
    err.kind \notin {"nil", "ErrCacheMiss", "ErrNotStored", "ErrCASConflict",
                     "ErrMalformedKey"}

\* A call returns r without having held a connection.
ReturnEarly(p, r) ==
    /\ pc' = [pc EXCEPT ![p] = "idle"]
    /\ call' = [call EXCEPT ![p] = NoCall]
    /\ last' = r
    /\ UNCHANGED <<connPool, connAddr, deadline, connState, toServer, fatal, stored>>

\* A call returns r: the deferred condRelease runs on its connection with the
\* error value the defer statement captured.
ReturnRelease(p, r) ==
    LET c == call[p].conn
        rel == condRelease(connPool, connState, c, call[p].deferErr)
    IN  /\ pc' = [pc EXCEPT ![p] = "idle"]
        /\ call' = [call EXCEPT ![p] = NoCall]
        /\ last' = [r EXCEPT !.op = call[p].op, !.key = call[p].key,
                             !.arg = call[p].arg, !.conn = c,
                             !.deadline = deadline[c],
                             !.expect = call[p].expect]
        /\ connPool' = rel.pool
        /\ connState' = rel.state
        /\ fatal' = IF ~r.panic /\ FatalClass(r.err) THEN fatal \cup {c} ELSE fatal

\* A call by p can begin.
CanCall(p) == pc[p] = "idle" /\ callsLeft > 0

\* A call that may change the item of key at the server starts (of every key
\* when all is TRUE): what earlier stores of the key returned no longer says
\* what the server holds, for later calls and for a Get in progress alike.
\* new is the caller's own record.
Forget(p, new, key, all) ==
    /\ stored' = [k \in DOMAIN stored |->
                    IF all \/ k = key THEN NoExpect ELSE stored[k]]
    /\ call' = [q \in DOMAIN call |->
                    IF q = p THEN new
                    ELSE IF all \/ call[q].key = key
                         THEN [call[q] EXCEPT !.expect = NoExpect]
                         ELSE call[q]]

\* ReadSlice('\n') on connection c: the line up to the first newline, or,
\* with none there when the deadline passes, the timeout; either way the bytes
\* handed out are gone from the reader.
ReadSlice(c) ==
    LET i == IndexOf(toClient[c], 10)
    IN  IF i > 0
        THEN [err |-> Nil, line |-> Take(toClient[c], i), rest |-> Drop(toClient[c], i)]
        ELSE [err |-> ErrTimeout, line |-> toClient[c], rest |-> <<>>]

\* ioutil.ReadAll(io.LimitReader(rw.Reader, n)): n bytes, or, with fewer there
\* when the deadline passes, those and the timeout.
ReadAllLimit(c, n) ==
    IF Len(toClient[c]) >= n
    THEN [err |-> Nil, data |-> Take(toClient[c], n), rest |-> Drop(toClient[c], n)]
    ELSE [err |-> ErrTimeout, data |-> toClient[c], rest |-> <<>>]

\* ------------------------------------------------------- add, set and replace

\* The request of a store command.
StoreRequest(cmd, key, arg) ==
    cmd \o SPACE \o key \o SPACE \o Itoa(arg.flags) \o SPACE \o Itoa(arg.exp) \o SPACE
        \o Itoa(Len(arg.value)) \o CTRL \o arg.value \o CTRL

CommandOf(op) ==
    CASE op = "Add" -> CmdAdd
      [] op = "Set" -> CmdSet
      [] op = "Replace" -> CmdReplace
      [] op = "Incr" -> CmdIncr
      [] op = "Decr" -> CmdDecr

\* onItem up to the first read of fn: the key check, PickServer, getGoConn,
\* the defer statement (err is nil where it stands) and the request.
onItem(p, op, key, arg) ==
    LET r == [NoRet EXCEPT !.op = op, !.key = key, !.arg = arg]
        pk == PickServer(addrs, key)
    IN  /\ CanCall(p)
        /\ callsLeft' = callsLeft - 1
        /\ UNCHANGED <<addrs, now, lk, picked, toClient, items>>
        /\ IF checkKey(key) # Nil
           THEN ReturnEarly(p, [r EXCEPT !.err = ErrMalformedKey])
           ELSE IF pk.err # Nil
           THEN ReturnEarly(p, [r EXCEPT !.err = pk.err])
           ELSE \E o \in getGoConn(pk.addr) :
                   IF o.err # Nil
                   THEN ReturnEarly(p, [r EXCEPT !.err = o.err])
                   ELSE /\ Acquire(pk.addr, o, StoreRequest(CommandOf(op), key, arg))
                        /\ pc' = [pc EXCEPT ![p] = "store_read"]
                        /\ Forget(p, [NoCall EXCEPT !.op = op, !.key = key, !.arg = arg,
                                                    !.conn = o.conn, !.deferErr = o.err],
                                  key, FALSE)
                        /\ UNCHANGED <<last, fatal>>

Add(p, key, arg) == onItem(p, "Add", key, arg)
Set(p, key, arg) == onItem(p, "Set", key, arg)
Replace(p, key, arg) == onItem(p, "Replace", key, arg)

\* The switch of parseStorePostAndResponse with the errors of its second and
\* third case exchanged.
StoreResultSwapped(line) ==
    IF line = RESULT_STORED THEN Nil
    ELSE IF line = RESULT_NOT_STORED THEN ErrCacheMiss
    ELSE IF line = RESULT_NOT_FOUND THEN ErrNotStored
    ELSE Errorf(line)

\* The switch of parseStorePostAndResponse on the line read.
StoreResult(line) ==
    IF line = RESULT_STORED THEN Nil
    ELSE IF line = RESULT_NOT_STORED THEN ErrNotStored
    ELSE IF line = RESULT_NOT_FOUND THEN ErrCacheMiss
    ELSE Errorf(line)

\* The rest of parseStorePostAndResponse: the one line read and the return.
StoreRead(p) ==
    LET c == call[p].conn
        rd == ReadSlice(c)
        err == IF rd.err # Nil THEN rd.err ELSE StoreResult(rd.line)
    IN  /\ pc[p] = "store_read"
        /\ toClient' = [toClient EXCEPT ![c] = rd.rest]
        /\ ReturnRelease(p, [NoRet EXCEPT !.err = err, !.line = rd.line])
        /\ stored' = IF err = Nil
                     THEN [stored EXCEPT ![call[p].key] =
                             [known |-> TRUE, value |-> call[p].arg.value,
                              flags |-> call[p].arg.flags]]
                     ELSE stored
        /\ UNCHANGED <<addrs, now, lk, picked, connAddr, deadline, toServer, items, callsLeft>>

\* ------------------------------------------------------------------------ get

\* Get up to the first read: getGoConnWithKey, the defer statement and the
\* request.  With no connection, gconn is nil: gconn.rw panics, and so does
\* the deferred condRelease, whose error is not resumable.
Get(p, key) ==
    LET r == [NoRet EXCEPT !.op = "Get", !.key = key]
        pk == PickServer(addrs, key)
        expect == IF key \in DOMAIN stored THEN stored[key] ELSE NoExpect
    IN  /\ CanCall(p)
        /\ callsLeft' = callsLeft - 1
        /\ UNCHANGED <<addrs, now, lk, picked, toClient, items>>
        /\ IF pk.err # Nil
           THEN ReturnEarly(p, [r EXCEPT !.panic = TRUE, !.err = pk.err])
           ELSE \E o \in getGoConn(pk.addr) :
                   IF o.err # Nil
                   THEN ReturnEarly(p, [r EXCEPT !.panic = TRUE, !.err = o.err])
                   ELSE /\ Acquire(pk.addr, o, CmdGet \o SPACE \o key \o CTRL)
                        /\ pc' = [pc EXCEPT ![p] = "get_line"]
                        /\ call' = [call EXCEPT ![p] =
                               [NoCall EXCEPT !.op = "Get", !.key = key, !.skey = key,
                                              !.conn = o.conn, !.deferErr = o.err,
                                              !.expect = expect]]
                        /\ UNCHANGED <<last, fatal, stored>>

\* parseGetResponse: the first line and the scan of it.
GetLine(p) ==
    LET c == call[p].conn
        rd == ReadSlice(c)
        h == ScanValueHeader(rd.line, call[p].key)
    IN  /\ pc[p] = "get_line"
        /\ toClient' = [toClient EXCEPT ![c] = rd.rest]
        /\ UNCHANGED <<addrs, now, lk, picked, connAddr, deadline, toServer, items, callsLeft, stored>>
        /\ IF rd.err # Nil
           THEN ReturnRelease(p, [NoRet EXCEPT !.err = rd.err, !.line = rd.line])
           ELSE /\ pc' = [pc EXCEPT ![p] = "get_data"]
                /\ call' = [call EXCEPT ![p].skey = h.key, ![p].flags = h.flags,
                                        ![p].size = h.size, ![p].line = rd.line]
                /\ UNCHANGED <<connPool, connState, last, fatal>>

\* parseGetResponse: the size + 2 bytes after the first line.
GetData(p) ==
    LET c == call[p].conn
        rd == ReadAllLimit(c, call[p].size + 2)
    IN  /\ pc[p] = "get_data"
        /\ toClient' = [toClient EXCEPT ![c] = rd.rest]
        /\ UNCHANGED <<addrs, now, lk, picked, connAddr, deadline, toServer, items, callsLeft, stored>>
        /\ IF rd.err # Nil
           THEN ReturnRelease(p, [NoRet EXCEPT !.err = rd.err, !.line = call[p].line])
           ELSE IF ~HasSuffix(rd.data, CTRL)
           THEN ReturnRelease(p, [NoRet EXCEPT !.err = Errorf(BadResultText),
                                               !.line = call[p].line])
           ELSE /\ pc' = [pc EXCEPT ![p] = "get_end"]
                /\ call' = [call EXCEPT ![p].value = Take(rd.data, call[p].size)]
                /\ UNCHANGED <<connPool, connState, last, fatal>>

\* parseGetResponse: the line after the data, and the return.
GetEnd(p) ==
    LET c == call[p].conn
        rd == ReadSlice(c)
        item == [key |-> call[p].skey, value |-> call[p].value, flags |-> call[p].flags]
    IN  /\ pc[p] = "get_end"
        /\ toClient' = [toClient EXCEPT ![c] = rd.rest]
        /\ UNCHANGED <<addrs, now, lk, picked, connAddr, deadline, toServer, items, callsLeft, stored>>
        /\ IF rd.err # Nil
           THEN ReturnRelease(p, [NoRet EXCEPT !.err = rd.err, !.line = call[p].line])
           ELSE ReturnRelease(p, [NoRet EXCEPT !.item = item, !.line = call[p].line])

\* ------------------------------------------------------ delete, incr and decr

\* Delete, Incr and Decr up to their read: getGoConnWithKey, whose error is
\* returned, the defer statement and the request.
KeyedRequest(p, op, key, out) ==
    LET r == [NoRet EXCEPT !.op = op, !.key = key]
        pk == PickServer(addrs, key)
    IN  /\ CanCall(p)
        /\ callsLeft' = callsLeft - 1
        /\ UNCHANGED <<addrs, now, lk, picked, toClient, items>>
        /\ IF pk.err # Nil
           THEN ReturnEarly(p, [r EXCEPT !.err = pk.err])
           ELSE \E o \in getGoConn(pk.addr) :
                   IF o.err # Nil
                   THEN ReturnEarly(p, [r EXCEPT !.err = o.err])
                   ELSE /\ Acquire(pk.addr, o, out)
                        /\ pc' = [pc EXCEPT ![p] =
                                    IF op = "Delete" THEN "delete_read" ELSE "counter_read"]
                        /\ Forget(p, [NoCall EXCEPT !.op = op, !.key = key,
                                                    !.conn = o.conn, !.deferErr = o.err],
                                  key, FALSE)
                        /\ UNCHANGED <<last, fatal>>

Delete(p, key) ==
    KeyedRequest(p, "Delete", key, CmdDelete \o SPACE \o key \o SPACE \o Itoa(0) \o CTRL)

\* The switch of Delete on the line read: the error returned, or the panic of
\* err.Error() on the nil err after the switch.
DeleteResult(line) ==
    IF line = RESULT_DELETE_OK THEN [panic |-> FALSE, err |-> Nil]
    ELSE IF line = RESULT_NOT_FOUND THEN [panic |-> FALSE, err |-> Errorf(RESULT_NOT_FOUND)]
    ELSE [panic |-> TRUE, err |-> Nil]

DeleteRead(p) ==
    LET c == call[p].conn
        rd == ReadSlice(c)
        res == IF rd.err # Nil THEN [panic |-> FALSE, err |-> rd.err]
               ELSE DeleteResult(rd.line)
    IN  /\ pc[p] = "delete_read"
        /\ toClient' = [toClient EXCEPT ![c] = rd.rest]
        /\ ReturnRelease(p, [NoRet EXCEPT !.panic = res.panic, !.err = res.err,
                                          !.line = rd.line])
        /\ UNCHANGED <<addrs, now, lk, picked, connAddr, deadline, toServer, items, callsLeft, stored>>

Incr(p, key, step) ==
    KeyedRequest(p, "Incr", key, CmdIncr \o SPACE \o key \o SPACE \o Itoa(step) \o CTRL)
Decr(p, key, step) ==
    KeyedRequest(p, "Decr", key, CmdDecr \o SPACE \o key \o SPACE \o Itoa(step) \o CTRL)

\* responseIncrAndDecr after the line is read.
CounterResult(line) ==
    IF line = RESULT_NOT_FOUND THEN [err |-> Errorf(RESULT_NOT_FOUND), res |-> 0]
    ELSE ScanCounter(line)

CounterRead(p) ==
    LET c == call[p].conn
        rd == ReadSlice(c)
        res == IF rd.err # Nil THEN [err |-> rd.err, res |-> 0] ELSE CounterResult(rd.line)
    IN  /\ pc[p] = "counter_read"
        /\ toClient' = [toClient EXCEPT ![c] = rd.rest]
        /\ ReturnRelease(p, [NoRet EXCEPT !.err = res.err, !.num = res.res,
                                          !.line = rd.line])
        /\ UNCHANGED <<addrs, now, lk, picked, connAddr, deadline, toServer, items, callsLeft, stored>>

\* ------------------------------------------------------------------ flush_all

\* FlushAll: Each walks the addresses configured when it starts.
FlushAll(p) ==
    /\ CanCall(p)
    /\ callsLeft' = callsLeft - 1
    /\ UNCHANGED <<addrs, now, lk, picked, connPool, connAddr, deadline, connState, toServer, toClient, items, fatal>>
    /\ IF addrs = <<>>
       THEN /\ pc' = [pc EXCEPT ![p] = "idle"]
            /\ last' = [NoRet EXCEPT !.op = "FlushAll"]
            /\ Forget(p, NoCall, <<>>, TRUE)
       ELSE /\ pc' = [pc EXCEPT ![p] = "flush_next"]
            /\ Forget(p, [NoCall EXCEPT !.op = "FlushAll", !.todo = addrs], <<>>, TRUE)
            /\ UNCHANGED last

\* The function FlushAll hands to Each, on the next address, up to its return.
FlushAddr(p) ==
    LET a == Head(call[p].todo)
        ferr(e) == IF call[p].ferr = Nil THEN e ELSE call[p].ferr
    IN  /\ pc[p] = "flush_next"
        /\ UNCHANGED <<addrs, now, lk, picked, toClient, items, callsLeft, stored>>
        /\ \E o \in getGoConn(a) :
              IF o.err = Nil
              THEN /\ Acquire(a, o, CmdFlushAll)
                   /\ pc' = [pc EXCEPT ![p] = "flush_release"]
                   /\ call' = [call EXCEPT ![p].conn = o.conn, ![p].deferErr = o.err]
                   /\ UNCHANGED <<last, fatal>>
              ELSE IF Tail(call[p].todo) = <<>>
              THEN /\ pc' = [pc EXCEPT ![p] = "idle"]
                   /\ call' = [call EXCEPT ![p] = NoCall]
                   /\ last' = [NoRet EXCEPT !.op = "FlushAll", !.err = ferr(o.err)]
                   /\ UNCHANGED <<connPool, connAddr, deadline, connState, toServer, fatal>>
              ELSE /\ call' = [call EXCEPT ![p].todo = Tail(@), ![p].ferr = ferr(o.err)]
                   /\ UNCHANGED <<pc, last, connPool, connAddr, deadline, connState, toServer, fatal>>

\* The return of that function: the deferred condRelease, then the next
\* address, or the return of FlushAll after the last.
FlushRelease(p) ==
    LET c == call[p].conn
        rel == condRelease(connPool, connState, c, call[p].deferErr)
    IN  /\ pc[p] = "flush_release"
        /\ connPool' = rel.pool
        /\ connState' = rel.state
        /\ UNCHANGED <<addrs, now, lk, picked, connAddr, deadline, toServer, toClient, items, callsLeft, fatal, stored>>
        /\ IF Tail(call[p].todo) = <<>>
           THEN /\ pc' = [pc EXCEPT ![p] = "idle"]
                /\ call' = [call EXCEPT ![p] = NoCall]
                /\ last' = [NoRet EXCEPT !.op = "FlushAll", !.err = call[p].ferr, !.conn = c,
                                          !.deadline = deadline[c]]
           ELSE /\ pc' = [pc EXCEPT ![p] = "flush_next"]
                /\ call' = [call EXCEPT ![p].todo = Tail(@), ![p].conn = 0]
                /\ UNCHANGED last

\* ------------------------------------------------------------------- server

\* The server at the other end of connection c takes one request and answers.
ServerStep(c) ==
    LET a == connAddr[c]
        r == ServerApply(items[a], toServer[c])
    IN  /\ connState[c] = "open"
        /\ r.ready
        /\ items' = [items EXCEPT ![a] = r.items]
        /\ toServer' = [toServer EXCEPT ![c] = r.rest]
        /\ toClient' = [toClient EXCEPT ![c] = @ \o r.reply]
        /\ UNCHANGED <<addrs, now, lk, picked, connPool, connAddr, deadline, connState, pc, call, last,
                       callsLeft, fatal, stored>>

\* ------------------------------------------------------------ server selector

\* net.ResolveTCPAddr on a server name: the address, or "none" with its error.
ResolveTCPAddr(server) == IF server \in Addrs THEN server ELSE "none"
ErrResolve == Err("resolve")

\* The server lists SetServers is called with; "nowhere" does not resolve.
SetServersArgs ==
    { <<>>, <<"a2">>, <<"a2", "a1">>, <<"a1", "a2", "a3">>,
      <<"a3", "nowhere">>, <<"nowhere", "a3">> }

\* A call of PickServer by p: under the read lock, one step.
PickServerCall(p, key) ==
    LET pk == PickServer(addrs, key)
    IN  /\ CanCall(p)
        /\ callsLeft' = callsLeft - 1
        /\ last' = [NoRet EXCEPT !.op = "PickServer", !.key = key, !.servers = addrs,
                                 !.err = pk.err, !.addr = pk.addr]
        /\ picked' = picked \cup {[key |-> key, err |-> pk.err, addr |-> pk.addr]}
        /\ UNCHANGED <<addrs, now, lk, connPool, connAddr, deadline, connState, toServer, toClient,
                       items, pc, call, fatal, stored>>

\* SetServers(servers...) by p begins: naddr is made.
SetServers(p, servers) ==
    /\ CanCall(p)
    /\ callsLeft' = callsLeft - 1
    /\ pc' = [pc EXCEPT ![p] = IF servers = <<>> THEN "set_commit" ELSE "set_resolve"]
    /\ call' = [call EXCEPT ![p] = [NoCall EXCEPT !.op = "SetServers", !.todo = servers]]
    /\ UNCHANGED <<addrs, now, lk, connPool, connAddr, deadline, connState, toServer, toClient,
                   items, last, fatal, stored, picked>>

\* That loop as it would be storing into gs.addrs instead of naddr.
SetServersResolveInPlace(p) ==
    LET addr == ResolveTCPAddr(Head(call[p].todo))
        servers == call[p].naddr \o call[p].todo
    IN  /\ pc[p] = "set_resolve"
        /\ UNCHANGED <<now, lk, connPool, connAddr, deadline, connState, toServer, toClient,
                       items, callsLeft, fatal, stored, picked>>
        /\ IF addr = "none"
           THEN /\ pc' = [pc EXCEPT ![p] = "idle"]
                /\ call' = [call EXCEPT ![p] = NoCall]
                /\ last' = [NoRet EXCEPT !.op = "SetServers", !.servers = servers,
                                         !.err = ErrResolve]
                /\ UNCHANGED addrs
           ELSE /\ pc' = [pc EXCEPT ![p] =
                            IF Tail(call[p].todo) = <<>> THEN "set_commit" ELSE "set_resolve"]
                /\ call' = [call EXCEPT ![p].todo = Tail(@),
                                        ![p].naddr = Append(@, addr)]
                /\ addrs' = Append(call[p].naddr, addr)
                /\ UNCHANGED last

\* One turn of its loop: the next entry resolves into naddr, or its error is
\* returned.
SetServersResolve(p) ==
    LET server == Head(call[p].todo)
        addr == ResolveTCPAddr(server)
        servers == call[p].naddr \o call[p].todo
    IN  /\ pc[p] = "set_resolve"
        /\ UNCHANGED <<addrs, now, lk, connPool, connAddr, deadline, connState, toServer, toClient,
                       items, callsLeft, fatal, stored, picked>>
        /\ IF addr = "none"
           THEN /\ pc' = [pc EXCEPT ![p] = "idle"]
                /\ call' = [call EXCEPT ![p] = NoCall]
                /\ last' = [NoRet EXCEPT !.op = "SetServers", !.servers = servers,
                                         !.err = ErrResolve]
           ELSE /\ pc' = [pc EXCEPT ![p] =
                            IF Tail(call[p].todo) = <<>> THEN "set_commit" ELSE "set_resolve"]
                /\ call' = [call EXCEPT ![p].todo = Tail(@),
                                        ![p].naddr = Append(@, addr)]
                /\ UNCHANGED last

\* After the loop: under the write lock, gs.addrs = naddr, and the return.
SetServersCommit(p) ==
    /\ pc[p] = "set_commit"
    /\ addrs' = call[p].naddr
    /\ picked' = {}
    /\ pc' = [pc EXCEPT ![p] = "idle"]
    /\ call' = [call EXCEPT ![p] = NoCall]
    /\ last' = [NoRet EXCEPT !.op = "SetServers", !.servers = call[p].naddr]
    /\ UNCHANGED <<now, lk, connPool, connAddr, deadline, connState, toServer, toClient, items,
                   callsLeft, fatal, stored>>

\* ----------------------------------------------------------------- the time

\* A second passes.
Tick ==
    /\ now < MaxTime
    /\ now' = now + 1
    /\ UNCHANGED <<addrs, connPool, connAddr, connState, toServer, toClient, items,
                   pc, call, last, callsLeft, fatal, stored, picked, deadline, lk>>

\* ------------------------------------------------- Delete, step by step

\* Delete with the steps of getGoConn and of the deferred condRelease taken
\* one at a time, gc.lk being locked and unlocked where the code does it.  In
\* the actions above, the sections gc.lk protects are within one step, and
\* gc.lk is free before and after it.

\* Delete up to getGoConn: PickServer, whose error is returned.
DeleteBegin(p, key) ==
    LET r == [NoRet EXCEPT !.op = "Delete", !.key = key]
        pk == PickServer(addrs, key)
    IN  /\ CanCall(p)
        /\ callsLeft' = callsLeft - 1
        /\ UNCHANGED <<addrs, now, lk, picked, toClient, items>>
        /\ IF pk.err # Nil
           THEN ReturnEarly(p, [r EXCEPT !.err = pk.err])
           ELSE /\ pc' = [pc EXCEPT ![p] = "getfree_lock"]
                /\ Forget(p, [NoCall EXCEPT !.op = "Delete", !.key = key,
                                            !.addr = pk.addr],
                          key, FALSE)
                /\ UNCHANGED <<connPool, connAddr, deadline, connState, toServer,
                               last, fatal>>

\* getFreeGoConnFromPool: gc.lk.Lock().
getFreeGoConnFromPoolLock(p) ==
    /\ pc[p] = "getfree_lock"
    /\ lk = 0
    /\ lk' = p
    /\ pc' = [pc EXCEPT ![p] = "getfree_list"]
    /\ UNCHANGED <<addrs, connPool, connAddr, connState, toServer, toClient, items,
                   call, last, callsLeft, fatal, stored, picked, now, deadline>>

\* getFreeGoConnFromPool: the last connection of the free list is taken, when
\* there is one, and the deferred gc.lk.Unlock() runs.
getFreeGoConnFromPoolList(p) ==
    LET a == call[p].addr
        ok == connPool[a] # <<>>
    IN  /\ pc[p] = "getfree_list"
        /\ lk' = 0
        /\ connPool' = IF ok THEN [connPool EXCEPT ![a] = Take(@, Len(@) - 1)]
                       ELSE connPool
        /\ call' = IF ok THEN [call EXCEPT ![p].conn = connPool[a][Len(connPool[a])]]
                   ELSE call
        /\ pc' = [pc EXCEPT ![p] = IF ok THEN "get_extend" ELSE "get_dial"]
        /\ UNCHANGED <<addrs, connAddr, connState, toServer, toClient, items,
                       last, callsLeft, fatal, stored, picked, now, deadline>>

\* dial: the ways it can end, with the next connection or with an error.
dial ==
    { [err |-> Nil, conn |-> c, reused |-> FALSE] :
        c \in {d \in DOMAIN connState :
                 /\ connState[d] = "unused"
                 /\ \A e \in DOMAIN connState : connState[e] = "unused" => d <= e} }
    \cup { [err |-> ErrDial, conn |-> 0, reused |-> FALSE] }

\* getGoConn: dial, whose error Delete returns.
getGoConnDial(p) ==
    /\ pc[p] = "get_dial"
    /\ \E o \in dial :
          IF o.err # Nil
          THEN /\ ReturnEarly(p, [NoRet EXCEPT !.op = "Delete", !.key = call[p].key,
                                               !.err = o.err])
          ELSE /\ connAddr' = [connAddr EXCEPT ![o.conn] = call[p].addr]
               /\ connState' = [connState EXCEPT ![o.conn] = "open"]
               /\ call' = [call EXCEPT ![p].conn = o.conn]
               /\ pc' = [pc EXCEPT ![p] = "get_extend"]
               /\ UNCHANGED <<connPool, deadline, toServer, last, fatal, stored>>
    /\ UNCHANGED <<addrs, now, lk, picked, toClient, items, callsLeft>>

\* getGoConn: extendDeadline, on either path.
getGoConnExtend(p) ==
    /\ pc[p] = "get_extend"
    /\ deadline' = [deadline EXCEPT ![call[p].conn] = extendDeadline]
    /\ pc' = [pc EXCEPT ![p] = "delete_write"]
    /\ UNCHANGED <<addrs, connPool, connAddr, connState, toServer, toClient, items,
                   call, last, callsLeft, fatal, stored, picked, now, lk>>

\* Delete: the defer statement, the request written and flushed.
DeleteWrite(p) ==
    LET c == call[p].conn
    IN  /\ pc[p] = "delete_write"
        /\ toServer' = [toServer EXCEPT
                          ![c] = @ \o CmdDelete \o SPACE \o call[p].key \o SPACE
                                   \o Itoa(0) \o CTRL]
        /\ call' = [call EXCEPT ![p].deferErr = Nil]
        /\ pc' = [pc EXCEPT ![p] = "delete_line"]
        /\ UNCHANGED <<addrs, connPool, connAddr, connState, toClient, items,
                       last, callsLeft, fatal, stored, picked, now, deadline, lk>>

\* What Delete returns after the read that ended with line and err.
DeleteReturn(line, err) ==
    IF err # Nil THEN [panic |-> FALSE, err |-> err] ELSE DeleteResult(line)

\* The return of Delete by p once its deferred condRelease has run.
DeleteDone(p) ==
    LET c == call[p].conn
        res == DeleteReturn(call[p].line, call[p].ferr)
    IN  /\ pc' = [pc EXCEPT ![p] = "idle"]
        /\ call' = [call EXCEPT ![p] = NoCall]
        /\ last' = [NoRet EXCEPT !.panic = res.panic, !.err = res.err,
                                 !.line = call[p].line,
                                 !.op = call[p].op, !.key = call[p].key,
                                 !.arg = call[p].arg, !.conn = c,
                                 !.deadline = deadline[c],
                                 !.expect = call[p].expect]
        /\ fatal' = IF ~res.panic /\ FatalClass(res.err) THEN fatal \cup {c} ELSE fatal

\* Delete: ReadSlice and the switch on the line, then the deferred
\* condRelease begins: with the error the defer statement captured not
\* resumable, the connection is closed and Delete has returned.
DeleteLine(p) ==
    LET c == call[p].conn
        rd == ReadSlice(c)
    IN  /\ pc[p] = "delete_line"
        /\ toClient' = [toClient EXCEPT ![c] = rd.rest]
        /\ IF resumeableError(call[p].deferErr)
           THEN /\ call' = [call EXCEPT ![p].line = rd.line, ![p].ferr = rd.err]
                /\ pc' = [pc EXCEPT ![p] = "put_lock"]
                /\ UNCHANGED <<connState, last, fatal>>
           ELSE /\ connState' = [connState EXCEPT ![c] = "closed"]
                /\ LET res == DeleteReturn(rd.line, rd.err)
                   IN  /\ pc' = [pc EXCEPT ![p] = "idle"]
                       /\ call' = [call EXCEPT ![p] = NoCall]
                       /\ last' = [NoRet EXCEPT !.panic = res.panic, !.err = res.err,
                                                !.line = rd.line,
                                                !.op = call[p].op, !.key = call[p].key,
                                                !.arg = call[p].arg, !.conn = c,
                                                !.deadline = deadline[c],
                                                !.expect = call[p].expect]
                       /\ fatal' = IF ~res.panic /\ FatalClass(res.err)
                                   THEN fatal \cup {c} ELSE fatal
        /\ UNCHANGED <<addrs, connPool, connAddr, toServer, items,
                       callsLeft, stored, picked, now, deadline, lk>>

\* putFreeGoConnToPool: gc.lk.Lock().
putFreeGoConnToPoolLock(p) ==
    /\ pc[p] = "put_lock"
    /\ lk = 0
    /\ lk' = p
    /\ pc' = [pc EXCEPT ![p] = "put_list"]
    /\ UNCHANGED <<addrs, connPool, connAddr, connState, toServer, toClient, items,
                   call, last, callsLeft, fatal, stored, picked, now, deadline>>

\* putFreeGoConnToPool: with the free list full the connection is closed,
\* else it is appended; the deferred gc.lk.Unlock() runs, and Delete has
\* returned.
putFreeGoConnToPoolList(p) ==
    LET put == putFreeGoConnToPool(connPool, connState, call[p].conn)
    IN  /\ pc[p] = "put_list"
        /\ connPool' = put.pool
        /\ connState' = put.state
        /\ lk' = 0
        /\ DeleteDone(p)
        /\ UNCHANGED <<addrs, connAddr, toServer, toClient, items,
                       callsLeft, stored, picked, now, deadline>>

\* ------------------------------------------------------------ specifications

Next ==
    \/ \E p \in DOMAIN pc, k \in Keys, arg \in StoreArgs : Add(p, k, arg)
    \/ \E p \in DOMAIN pc, k \in Keys, arg \in StoreArgs : Set(p, k, arg)
    \/ \E p \in DOMAIN pc, k \in Keys, arg \in StoreArgs : Replace(p, k, arg)
    \/ \E p \in DOMAIN pc : StoreRead(p)
    \/ \E p \in DOMAIN pc, k \in Keys : Get(p, k)
    \/ \E p \in DOMAIN pc : GetLine(p)
    \/ \E p \in DOMAIN pc : GetData(p)
    \/ \E p \in DOMAIN pc : GetEnd(p)
    \/ \E p \in DOMAIN pc, k \in Keys : Delete(p, k)
    \/ \E p \in DOMAIN pc : DeleteRead(p)
    \/ \E p \in DOMAIN pc, k \in Keys, d \in Deltas : Incr(p, k, d)
    \/ \E p \in DOMAIN pc, k \in Keys, d \in Deltas : Decr(p, k, d)
    \/ \E p \in DOMAIN pc : CounterRead(p)
    \/ \E p \in DOMAIN pc : FlushAll(p)
    \/ \E p \in DOMAIN pc : FlushAddr(p)
    \/ \E p \in DOMAIN pc : FlushRelease(p)
    \/ \E c \in DOMAIN connState : ServerStep(c)

Spec == Init /\ [][Next]_vars

\* One caller making more calls in a row.
InitSeq == InitWith({1}, Conns, SeqCalls, ServerLists)
SpecSeq == InitSeq /\ [][Next]_vars

\* The pool under load: many callers of Delete on one key of one server that
\* does not answer before the deadline, so that every caller keeps its
\* connection until its read times out.
InitPool == InitWith(1..PoolProcs, 1..PoolConns, PoolCalls, {<<"a1">>})
NextPool ==
    \/ \E p \in DOMAIN pc : Delete(p, KeyDog)
    \/ \E p \in DOMAIN pc : DeleteRead(p)
SpecPool == InitPool /\ [][NextPool]_vars

\* One release, from every filling of the free lists: a caller of Delete is
\* about to read on a connection of one of two addresses, whose free list
\* holds none to DEFAULT_FREE_GO_CONN_NUM connections that earlier callers
\* have put there, while the free list of the other address holds none to
\* RelOther.
InitRelease ==
    \E as \in {<<"a1", "a2">>, <<"a2", "a1">>},
       n \in 0..DEFAULT_FREE_GO_CONN_NUM, m \in 0..RelOther :
        LET a == PickServer(as, KeyDog).addr
            b == IF a = "a1" THEN "a2" ELSE "a1"
            h == n + m + 1
            conns == 1..(DEFAULT_FREE_GO_CONN_NUM + RelOther + 1 + RelCalls)
        IN  /\ addrs = as
            /\ connPool = [x \in Addrs |->
                              IF x = a THEN [i \in 1..n |-> i]
                              ELSE IF x = b THEN [i \in 1..m |-> n + i]
                              ELSE <<>>]
            /\ connAddr = [c \in conns |->
                              IF c <= n \/ c = h THEN a
                              ELSE IF c <= n + m THEN b ELSE "none"]
            /\ connState = [c \in conns |-> IF c <= h THEN "open" ELSE "unused"]
            /\ toServer = [c \in conns |->
                              IF c = h
                              THEN CmdDelete \o SPACE \o KeyDog \o SPACE \o Itoa(0) \o CTRL
                              ELSE <<>>]
            /\ toClient = [c \in conns |-> <<>>]
            /\ items = [x \in Addrs |-> NoItems]
            /\ pc = [p \in {1} |-> "delete_read"]
            /\ call = [p \in {1} |->
                          [NoCall EXCEPT !.op = "Delete", !.key = KeyDog, !.conn = h]]
            /\ last = NoRet
            /\ callsLeft = RelCalls
            /\ fatal = {}
            /\ stored = [k \in GoodKeys |-> NoExpect]
            /\ picked = {}
            /\ now = 0
            /\ deadline = [c \in conns |-> IF c <= h THEN DEFAULT_CLIENT_TIMEOUT ELSE 0]
            /\ lk = 0
NextRelease ==
    \/ \E p \in DOMAIN pc : Delete(p, KeyDog)
    \/ \E p \in DOMAIN pc : DeleteRead(p)
    \/ \E c \in DOMAIN connState : ServerStep(c)
SpecRelease == InitRelease /\ [][NextRelease]_vars

\* Callers of Delete, step by step, from every filling of the free list of
\* one address: a caller is about to read on a connection while the free list
\* holds none to DEFAULT_FREE_GO_CONN_NUM connections that earlier callers
\* have put there.
InitLock ==
    \E n \in 0..DEFAULT_FREE_GO_CONN_NUM :
        LET a == "a1"
            h == n + 1
            conns == 1..(DEFAULT_FREE_GO_CONN_NUM + 1 + LockCalls)
        IN  /\ addrs = <<a>>
            /\ connPool = [x \in Addrs |-> IF x = a THEN [i \in 1..n |-> i] ELSE <<>>]
            /\ connAddr = [c \in conns |-> IF c <= h THEN a ELSE "none"]
            /\ connState = [c \in conns |-> IF c <= h THEN "open" ELSE "unused"]
            /\ toServer = [c \in conns |->
                              IF c = h
                              THEN CmdDelete \o SPACE \o KeyDog \o SPACE \o Itoa(0) \o CTRL
                              ELSE <<>>]
            /\ toClient = [c \in conns |-> <<>>]
            /\ items = [x \in Addrs |-> NoItems]
            /\ pc = [p \in 1..LockProcs |-> IF p = 1 THEN "delete_line" ELSE "idle"]
            /\ call = [p \in 1..LockProcs |->
                          IF p = 1
                          THEN [NoCall EXCEPT !.op = "Delete", !.key = KeyDog,
                                              !.addr = a, !.conn = h]
                          ELSE NoCall]
            /\ last = NoRet
            /\ callsLeft = LockCalls
            /\ fatal = {}
            /\ stored = [k \in GoodKeys |-> NoExpect]
            /\ picked = {}
            /\ now = 0
            /\ deadline = [c \in conns |-> IF c <= h THEN DEFAULT_CLIENT_TIMEOUT ELSE 0]
            /\ lk = 0
NextLock ==
    \/ \E p \in DOMAIN pc : DeleteBegin(p, KeyDog)
    \/ \E p \in DOMAIN pc : getFreeGoConnFromPoolLock(p)
    \/ \E p \in DOMAIN pc : getFreeGoConnFromPoolList(p)
    \/ \E p \in DOMAIN pc : getGoConnDial(p)
    \/ \E p \in DOMAIN pc : getGoConnExtend(p)
    \/ \E p \in DOMAIN pc : DeleteWrite(p)
    \/ \E p \in DOMAIN pc : DeleteLine(p)
    \/ \E p \in DOMAIN pc : putFreeGoConnToPoolLock(p)
    \/ \E p \in DOMAIN pc : putFreeGoConnToPoolList(p)
    \/ \E c \in DOMAIN connState : ServerStep(c)
SpecLock == InitLock /\ [][NextLock]_vars

\* Callers of Delete and FlushAll while time passes.
InitTime == InitWith(1..TimeProcs, Conns, TimeCalls, {<<"a1">>})
NextTime ==
    \/ Tick
    \/ \E p \in DOMAIN pc : Delete(p, KeyDog)
    \/ \E p \in DOMAIN pc : DeleteRead(p)
    \/ \E p \in DOMAIN pc : FlushAll(p)
    \/ \E p \in DOMAIN pc : FlushAddr(p)
    \/ \E p \in DOMAIN pc : FlushRelease(p)
    \/ \E c \in DOMAIN connState : ServerStep(c)
SpecTime == InitTime /\ [][NextTime]_vars

\* The selector: callers of PickServer and SetServers, beside callers of Add
\* with every key of the model.
InitSel == InitWith(1..SelProcs, Conns, SelCalls, ServerLists)
NextSel ==
    \/ \E p \in DOMAIN pc, k \in AllKeys : PickServerCall(p, k)
    \/ \E p \in DOMAIN pc, servers \in SetServersArgs : SetServers(p, servers)
    \/ \E p \in DOMAIN pc : SetServersResolve(p)
    \/ \E p \in DOMAIN pc : SetServersCommit(p)
    \/ \E p \in DOMAIN pc, k \in AllKeys : Add(p, k, SelArg)
    \/ \E p \in DOMAIN pc : StoreRead(p)
    \/ \E c \in DOMAIN connState : ServerStep(c)
SpecSel == InitSel /\ [][NextSel]_vars

\* ------------------------------------------------------------------ properties

StoreOps == {"Add", "Set", "Replace"}
CounterOps == {"Incr", "Decr"}
KeyedOps == StoreOps \cup CounterOps \cup {"Get", "Delete"}

\* A connection is in some free list, or held by a call in progress.
InPool(c) == \E a \in Addrs : \E i \in 1..Len(connPool[a]) : connPool[a][i] = c
Held(c) == \E p \in DOMAIN pc : pc[p] # "idle" /\ call[p].conn = c

\* The last return read a whole line from its connection.
LineRead == last.conn # 0 /\ HasSuffix(last.line, <<10>>)

\* C1: a connection whose operation ended with a fatal-class error (anything
\* but nil, cache-miss, not-stored, cas-conflict, malformed-key) is closed, is
\* in no free list, and is never again held by a call.
C1_FatalConnDiscarded ==
    \A c \in fatal : connState[c] = "closed" /\ ~InPool(c) /\ ~Held(c)

\* C2: a keyed operation called with an invalid key returns malformed-key
\* without a connection: none of its calls is ever in progress on a
\* connection, and its return carries ErrMalformedKey and no connection.
C2_InvalidKeyRejected ==
    /\ \A p \in DOMAIN pc :
          pc[p] # "idle" /\ call[p].op \in KeyedOps => checkKey(call[p].key) = Nil
    /\ last.op \in KeyedOps /\ checkKey(last.key) # Nil =>
          ~last.panic /\ last.err = ErrMalformedKey /\ last.conn = 0

\* C3: a keyed operation whose connection acquisition failed (no server
\* configured, or the dial failed) returns that error as a value, having held
\* no connection.
C3_AcquireFailureReturned ==
    last.op \in KeyedOps /\ last.err \in {ErrNoServer, ErrDial} =>
        ~last.panic /\ last.conn = 0

\* C4: no free list ever holds more than DEFAULT_FREE_GO_CONN_NUM connections.
C4_FreeListBounded ==
    \A a \in Addrs : Len(connPool[a]) <= DEFAULT_FREE_GO_CONN_NUM

\* A free list is full and a connection released to it was closed instead.
C4_Witness ==
    \E a \in Addrs :
        /\ Len(connPool[a]) = DEFAULT_FREE_GO_CONN_NUM
        /\ \E c \in DOMAIN connState : connAddr[c] = a /\ connState[c] = "closed"

\* C5: a Get whose first response line is END\r\n returns ErrCacheMiss and no
\* item, and reads nothing after that line.
C5_GetMissIsCacheMiss ==
    /\ \A p \in DOMAIN pc : pc[p] \in {"get_data", "get_end"} => call[p].line # RESULT_END
    /\ last.op = "Get" /\ last.line = RESULT_END =>
          ~last.panic /\ last.err = ErrCacheMiss /\ last.item = NoItem

\* C6: a Get of a key whose last store returned nil (no other command on the
\* key begun since) that ends otherwise than by the read deadline returns the
\* value and the flags of that store.
C6_StoreGetRoundTrip ==
    last.op = "Get" /\ last.expect.known /\ last.err # ErrTimeout =>
        /\ ~last.panic
        /\ last.err = Nil
        /\ last.item.value = last.expect.value
        /\ last.item.flags = last.expect.flags

\* The line a store call read decides its error.
C7_Mapping ==
    last.op \in StoreOps /\ LineRead =>
        /\ ~last.panic
        /\ last.line = RESULT_STORED => last.err = Nil
        /\ last.line = RESULT_NOT_STORED => last.err = ErrNotStored
        /\ last.line = RESULT_NOT_FOUND => last.err = ErrCacheMiss
        /\ last.line \notin {RESULT_STORED, RESULT_NOT_STORED, RESULT_NOT_FOUND} =>
              last.err = [kind |-> "errorf", text |-> last.line]

\* The read of a store call takes the first line of its connection, and
\* leaves what follows it.
C7_OneLine ==
    \A p \in DOMAIN pc :
        pc[p] = "store_read" /\ pc'[p] = "idle" =>
            LET c == call[p].conn
                i == IndexOf(toClient[c], 10)
            IN  i > 0 => /\ last'.line = Take(toClient[c], i)
                         /\ toClient'[c] = Drop(toClient[c], i)

\* C7: add, set and replace read exactly one response line, and that line
\* alone gives the result: STORED\r\n nil, NOT_STORED\r\n ErrNotStored,
\* NOT_FOUND\r\n ErrCacheMiss, any other line an error carrying the line.
C7_StoreResponse == []C7_Mapping /\ [][C7_OneLine]_vars

\* A replace of a key the server does not hold read NOT_STORED\r\n.
C7_Witness ==
    /\ last.op = "Replace"
    /\ last.line = RESULT_NOT_STORED
    /\ last.err = ErrNotStored

\* C8: Delete maps the line it read: DELETED\r\n gives nil, NOT_FOUND\r\n gives
\* ErrCacheMiss (a resumable error), any other line an error that is returned.
C8_DeleteResponse ==
    last.op = "Delete" /\ LineRead =>
        /\ ~last.panic
        /\ last.line = RESULT_DELETE_OK => last.err = Nil
        /\ last.line = RESULT_NOT_FOUND =>
              last.err = ErrCacheMiss /\ resumeableError(last.err)
        /\ last.line \notin {RESULT_DELETE_OK, RESULT_NOT_FOUND} => last.err # Nil

\* C9: Incr and Decr that read NOT_FOUND\r\n return ErrCacheMiss, a resumable
\* error, and no number.
C9_CounterMissIsCacheMiss ==
    last.op \in CounterOps /\ LineRead /\ last.line = RESULT_NOT_FOUND =>
        /\ last.err = ErrCacheMiss
        /\ resumeableError(last.err)
        /\ last.num = 0

\* The digits of a line that is a decimal number and CRLF; <<>> for any other.
DecimalOf(line) ==
    LET n == Len(line) - Len(CTRL)
    IN  IF n >= 1 /\ HasSuffix(line, CTRL) /\ \A i \in 1..n : IsDigit(line[i])
        THEN Take(line, n)
        ELSE <<>>

\* C10: Incr and Decr that read a line which is not a decimal number and CRLF
\* return an error and the number 0; a line that is the number n and CRLF
\* gives n with a nil error.
C10_CounterResponse ==
    last.op \in CounterOps /\ LineRead =>
        IF DecimalOf(last.line) = <<>>
        THEN last.err # Nil /\ last.num = 0
        ELSE last.err = Nil /\ last.num = Atoi(DecimalOf(last.line))

\* Incr by 100 of a key stored as "2" returned 102.
C10_Witness ==
    /\ last.op = "Incr"
    /\ last.line = Itoa(102) \o CTRL
    /\ last.err = Nil
    /\ last.num = 102
    /\ \E a \in Addrs : items[a] # NoItems

\* crc32 (IEEE) of the keys of the model, 0x812c397d for "dog", 0x806c5cd3 for
\* "a b", 0x076acc3e for "k\x7f", 0xeb813b94 for 251 times "a" and 0 for "",
\* reduced modulo 2 and modulo 3.
Crc32Residue(key, n) ==
    LET r == CASE key = KeyDog -> <<1, 1>>
               [] key = KeySpace -> <<1, 2>>
               [] key = KeyDel -> <<0, 1>>
               [] key = KeyLong -> <<0, 1>>
               [] key = <<>> -> <<0, 0>>
    IN  r[n - 1]

\* C11: PickServer depends on the key and the address list only: no server
\* error with no address, the address with one, addresses[crc32(key) mod n]
\* with n of them; and between two SetServers every call with one key has
\* returned one result.
C11_PickServerPure ==
    /\ last.op = "PickServer" =>
          LET as == last.servers
              n == Len(as)
          IN  /\ n = 0 => last.err = ErrNoServer
              /\ n = 1 => last.err = Nil /\ last.addr = as[1]
              /\ n >= 2 => /\ last.err = Nil
                           /\ last.addr = as[Crc32Residue(last.key, n) + 1]
    /\ \A x, y \in picked : x.key = y.key => x = y

\* "a b" was routed to the third of three addresses, after SetServers.
C11_Witness ==
    /\ last.op = "PickServer"
    /\ last.key = KeySpace
    /\ last.servers = <<"a1", "a2", "a3">>
    /\ last.addr = "a3"
    /\ [key |-> KeySpace, err |-> Nil, addr |-> "a3"] \in picked

\* The lists whose every entry resolves.
Resolves(servers) == \A i \in 1..Len(servers) : ResolveTCPAddr(servers[i]) # "none"
\* The address lists New and SetServers can set as a whole.
WholeLists == ServerLists \cup {servers \in SetServersArgs : Resolves(servers)}

\* SetServers returns an error exactly when an entry does not resolve; the
\* address list is always a list that was given as a whole.
C12_Whole ==
    /\ addrs \in WholeLists
    /\ last.op = "PickServer" => last.servers \in WholeLists
    /\ last.op = "SetServers" => (last.err = Nil <=> Resolves(last.servers))

\* The address list changes only as a SetServers whose entries all resolved
\* returns nil, and then to its list in the order given; such a return always
\* leaves its list.
C12_Step ==
    /\ addrs' # addrs =>
          \E p \in DOMAIN pc :
              /\ call[p].op = "SetServers" /\ pc'[p] = "idle"
              /\ last'.op = "SetServers" /\ last'.err = Nil
    /\ \A p \in DOMAIN pc :
          call[p].op = "SetServers" /\ pc'[p] = "idle" /\ last'.err = Nil =>
              addrs' = last'.servers /\ Resolves(last'.servers)

\* C12: SetServers is all or nothing: with an entry that does not resolve it
\* returns an error and leaves the address list as it was; with none it
\* replaces the whole list in the order given; PickServer sees a whole list.
C12_SetServersAllOrNothing == []C12_Whole /\ [][C12_Step]_vars

\* A SetServers with an entry that does not resolve failed after an earlier
\* one had set two addresses, which are still there.
C12_Witness ==
    /\ last.op = "SetServers"
    /\ last.servers = <<"a3", "nowhere">>
    /\ last.err = ErrResolve
    /\ addrs = <<"a2", "a1">>

\* The keys the key check is to refuse.
Malformed(key) ==
    \/ key = <<>>
    \/ Len(key) > 250
    \/ \E i \in 1..Len(key) : key[i] <= 32 \/ key[i] >= 127

\* C13: the key check of a store call answers ErrMalformedKey exactly for the
\* keys that are empty, longer than 250 bytes, or hold a byte <= 0x20 or
\* >= 0x7F: no call with such a key goes on to a connection, and the call
\* returns ErrMalformedKey for such keys and for no other.
C13_CheckKeyExact ==
    /\ \A p \in DOMAIN pc :
          pc[p] = "store_read" => ~Malformed(call[p].key)
    /\ last.op \in StoreOps => (last.err = ErrMalformedKey <=> Malformed(last.key))

\* C14: a connection in a free list whose operations all ended without a
\* fatal-class error has no request bytes the server has not taken (each
\* request written was complete, and answered) and no response bytes the
\* client has not read (each response was consumed by its own operation).
C14_PooledConnInStep ==
    \A c \in DOMAIN connState :
        InPool(c) /\ c \notin fatal => toServer[c] = <<>> /\ toClient[c] = <<>>

\* The places of connection c in the free lists, and the calls that hold it.
PlacesOf(c) ==
    UNION { {<<a, i>> : i \in {j \in 1..Len(connPool[a]) : connPool[a][j] = c}} :
            a \in Addrs }
HoldersOf(c) == {p \in DOMAIN pc : pc[p] # "idle" /\ call[p].conn = c}

\* C15: a connection is at one place of one free list at most, is never both
\* in a free list and held by a call, and is never held by two calls.
C15_Exclusive ==
    \A c \in DOMAIN connState :
        /\ Cardinality(PlacesOf(c)) <= 1
        /\ Cardinality(HoldersOf(c)) <= 1
        /\ PlacesOf(c) = {} \/ HoldersOf(c) = {}

\* Two calls in progress on one address hold two connections, one of them
\* taken from the free list, where the last call to return had put it.
C15_Witness ==
    \E p, q \in DOMAIN pc :
        /\ p # q /\ pc[p] # "idle" /\ pc[q] # "idle"
        /\ call[p].conn # 0 /\ call[q].conn # 0
        /\ call[p].conn # call[q].conn
        /\ connAddr[call[p].conn] = connAddr[call[q].conn]
        /\ last.conn = call[p].conn

\* A connection the client has open is in a free list or held by a call; one
\* it has closed, or not yet dialed, is in no free list and held by no call.
C16_Owned ==
    \A c \in DOMAIN connState :
        IF connState[c] = "open"
        THEN InPool(c) \/ Held(c)
        ELSE ~InPool(c) /\ ~Held(c)

\* A call that gives up its connection leaves it at the end of the free list
\* of its address and open, or closed and in no free list: one of the two.
C16_GivenUpOnce ==
    \A p \in DOMAIN pc :
        LET c == call[p].conn
            a == connAddr[c]
        IN  pc[p] # "idle" /\ c # 0 /\ call'[p].conn # c =>
                \/ /\ connState'[c] = "open"
                   /\ connPool' = [connPool EXCEPT ![a] = Append(@, c)]
                \/ /\ connState'[c] = "closed"
                   /\ connPool' = connPool

\* C16: on every return of an operation the connection it was handed is put in
\* the free list or closed, one of the two and once; no connection stays
\* checked out after its operation, none is both in a free list and closed.
C16_ReleasedOnce == []C16_Owned /\ [][C16_GivenUpOnce]_vars

\* A call has returned a fatal-class error and its connection is owned by the
\* free list alone.
C16_Witness ==
    /\ last.conn # 0
    /\ FatalClass(last.err)
    /\ InPool(last.conn) /\ ~Held(last.conn)
    /\ connState[last.conn] = "open"

\* A first line of a response to get that is neither a VALUE header nor END.
OtherLine(line) ==
    /\ HasSuffix(line, <<10>>)
    /\ line # RESULT_END
    /\ ~HasPrefix(line, WordVALUE \o SPACE)

\* C17: a Get whose first response line is neither a VALUE header nor END\r\n
\* reads no data block after it, and returns an error of the protocol that is
\* made for that line.
C17_GetOtherLineIsError ==
    /\ \A p \in DOMAIN pc :
          pc[p] \in {"get_data", "get_end"} => ~OtherLine(call[p].line)
    /\ last.op = "Get" /\ last.conn # 0 /\ OtherLine(last.line) =>
          ~last.panic /\ last.err.kind = "errorf" /\ last.err # Errorf(BadResultText)

\* What a release changes, by a call giving up its connection.
C18_Step ==
    \A p \in DOMAIN pc :
        LET c == call[p].conn
            a == connAddr[c]
        IN  pc[p] # "idle" /\ c # 0 /\ call'[p].conn # c =>
                /\ \A b \in Addrs \ {a} : connPool'[b] = connPool[b]
                /\ \A d \in DOMAIN connState \ {c} : connState'[d] = connState[d]
                /\ IF Len(connPool[a]) >= 5
                   THEN connState'[c] = "closed" /\ connPool'[a] = connPool[a]
                   ELSE connState'[c] = "open" /\ connPool'[a] = Append(connPool[a], c)

\* C18: a release to a free list that holds DEFAULT_FREE_GO_CONN_NUM (5)
\* connections closes the connection released and leaves the list as it was;
\* a release to a shorter list puts the connection at its end and leaves it
\* open; the free lists of the other addresses stay as they were.
C18_ReleaseFrame == [][C18_Step]_vars

\* The last call to return found the free list of its address full and its
\* connection was closed, while the free list of another address holds
\* connections.
C18_Witness ==
    /\ last.conn # 0
    /\ connState[last.conn] = "closed"
    /\ Len(connPool[connAddr[last.conn]]) = DEFAULT_FREE_GO_CONN_NUM
    /\ \E b \in Addrs \ {connAddr[last.conn]} : connPool[b] # <<>>

\* A call checks connection c out in this step.
CheckedOut(p, c) == c # 0 /\ call[p].conn # c /\ call'[p].conn = c

\* C19: a step in which a call checks a connection out, taken from the free
\* list or dialed, sets the deadline of the connection to the time of the
\* step plus the client timeout, and no other step changes a deadline: a
\* connection a call holds has the deadline of its latest checkout.
C19_Step ==
    /\ \A p \in DOMAIN pc : \A c \in DOMAIN connState :
           CheckedOut(p, c) => deadline'[c] = now + DEFAULT_CLIENT_TIMEOUT
    /\ \A c \in DOMAIN connState :
           deadline'[c] # deadline[c] => \E p \in DOMAIN pc : CheckedOut(p, c)
C19_DeadlineRearmed == [][C19_Step]_vars

\* A call holds the connection the last call returned, and the deadline of
\* the connection is later than it was at that return: it is the one of this
\* checkout.
C19_Witness ==
    \E p \in DOMAIN pc :
        /\ pc[p] # "idle"
        /\ call[p].conn # 0
        /\ last.conn = call[p].conn
        /\ last.deadline < deadline[call[p].conn]
        /\ deadline[call[p].conn] = now + DEFAULT_CLIENT_TIMEOUT

\* The connections of address a that calls hold.
CheckedOutOf(a) == {c \in DOMAIN connState : Held(c) /\ connAddr[c] = a}

\* With the free list of an address empty, getGoConn can end with a newly
\* dialed connection, however many connections of the address are held.
C20_DialOffered ==
    \A a \in Addrs :
        connPool[a] = <<>> /\ (\E c \in DOMAIN connState : connState[c] = "unused") =>
            \E o \in getGoConn(a) :
                o.err = Nil /\ ~o.reused /\ connState[o.conn] = "unused"

\* A caller that may call can start its Delete, whatever the other callers
\* hold.
C20_NoWait ==
    \A p \in DOMAIN pc : CanCall(p) /\ addrs # <<>> => ENABLED Delete(p, KeyDog)

\* A call that checks a connection out while the free list of the address is
\* empty gets a connection that was not open before.
C20_Step ==
    \A p \in DOMAIN pc : \A c \in DOMAIN connState :
        CheckedOut(p, c) /\ connPool[connAddr'[c]] = <<>> =>
            connState[c] = "unused" /\ connState'[c] = "open"

\* C20: getGoConn never waits for a connection to be given back: with the free
\* list of the address empty it dials, so the connections of one address that
\* are checked out at once are as many as the callers, more than
\* DEFAULT_FREE_GO_CONN_NUM among them.
C20_AcquireNeverWaits ==
    /\ [](C20_DialOffered /\ C20_NoWait)
    /\ [][C20_Step]_vars

\* More connections of one address are checked out at once than a free list
\* holds.
C20_Witness ==
    \E a \in Addrs : Cardinality(CheckedOutOf(a)) > DEFAULT_FREE_GO_CONN_NUM

\* A step of caller p acts on a socket: it dials or reads (which may leave
\* the sockets as they were), or it opens or closes a connection, sets a
\* deadline, or writes.
NetworkAction(p) ==
    /\ pc'[p] # pc[p]
    /\ \/ pc[p] \in {"get_dial", "delete_line"}
       \/ connState' # connState
       \/ deadline' # deadline
       \/ \E c \in DOMAIN toServer : Len(toServer'[c]) > Len(toServer[c])

\* gc.lk is held within getFreeGoConnFromPool and putFreeGoConnToPool only.
C21_HeldInPool ==
    lk # 0 => pc[lk] \in {"getfree_list", "put_list"}

\* The caller that holds gc.lk does not act on a socket.
C21_Step ==
    \A p \in DOMAIN pc : NetworkAction(p) => lk # p

\* C21: getGoConn and the release hold gc.lk while they work on the free
\* list only: no step that dials, sets a deadline, reads, writes, flushes or
\* closes is taken by the caller that holds gc.lk.
C21_LockNotAcrossIO == []C21_HeldInPool /\ [][C21_Step]_vars

====
